---- MODULE Spec2Model ----
(***************************************************************************)
(* Birthday document parser and HTML card generator.                       *)
(*                                                                         *)
(* A text is a sequence of characters; a character is a one-character      *)
(* string, except the invisible characters of INVISIBLE, which are named   *)
(* by their code point ("u200b", "u00a0", ...).                            *)
(* An optional value (Python None or a value) is <<>> or <<value>>.        *)
(* A dict is a sequence of entries in insertion order, keys unique.        *)
(***************************************************************************)
EXTENDS Integers, Sequences, FiniteSets, TLC

VARIABLES
    doc,           \* the paragraphs of the document, in _iter_all_paragraphs order
    pc,            \* position in the request: which statement runs next
    i,             \* loop index (paragraph in pass 1, item in pass 2)
    items,         \* app.py pass 1: (text, date_label or None) per kept line
    debug_lines,   \* app.py pass 1: "[DATE] ..." / "[NAME] ..." log
    birthdays,     \* the ordered mapping label -> names
    current_date,  \* optional label
    leading,       \* app.py pass 2: names seen before any date
    html,          \* optional result of generate_html
    title          \* optional title of the response

vars == <<doc, pc, i, items, debug_lines, birthdays, current_date, leading, html, title>>

----------------------------------------------------------------------------
(* Bounds of the model *)

MaxLines == 4      \* paragraphs per document
MaxLabels == 6     \* labels of a mapping handed directly to generate_html

----------------------------------------------------------------------------
(* Characters *)

UpperCase == <<"A","B","C","D","E","F","G","H","I","J","K","L","M",
               "N","O","P","Q","R","S","T","U","V","W","X","Y","Z">>
LowerCase == <<"a","b","c","d","e","f","g","h","i","j","k","l","m",
               "n","o","p","q","r","s","t","u","v","w","x","y","z">>

Range(s) == {s[k] : k \in DOMAIN s}

IsUpper(c) == c \in Range(UpperCase)
IsLetter(c) == c \in Range(UpperCase) \cup Range(LowerCase)
IsDigit(c) == c \in {"0","1","2","3","4","5","6","7","8","9"}
IsSpace(c) == c \in {" ", "\t", "\n"}
IsWordChar(c) == IsLetter(c) \/ IsDigit(c) \/ c = "_"
IsInvisible(c) == c \in {"u200b", "u200c", "u200d", "ufeff", "u00a0"}

LowerChar(c) == IF IsUpper(c)
                THEN LowerCase[CHOOSE k \in DOMAIN UpperCase : UpperCase[k] = c]
                ELSE c
lower(s) == [k \in DOMAIN s |-> LowerChar(s[k])]

None == <<>>
Some(x) == <<x>>

----------------------------------------------------------------------------
(* str helpers *)

RECURSIVE SplitFrom(_, _, _, _)
SplitFrom(s, k, cur, acc) ==
    IF k > Len(s)
    THEN IF cur = <<>> THEN acc ELSE Append(acc, cur)
    ELSE IF IsSpace(s[k])
         THEN SplitFrom(s, k + 1, <<>>, IF cur = <<>> THEN acc ELSE Append(acc, cur))
         ELSE SplitFrom(s, k + 1, Append(cur, s[k]), acc)

\* str.split(): the maximal runs of non-whitespace characters
split(s) == SplitFrom(s, 1, <<>>, <<>>)

RECURSIVE join(_, _)
\* sep.join(parts)
join(sep, parts) ==
    IF parts = <<>> THEN <<>>
    ELSE IF Len(parts) = 1 THEN parts[1]
    ELSE parts[1] \o sep \o join(sep, Tail(parts))

RECURSIVE lstripSet(_, _)
lstripSet(s, C) == IF s # <<>> /\ s[1] \in C THEN lstripSet(Tail(s), C) ELSE s
RECURSIVE rstripSet(_, _)
rstripSet(s, C) ==
    IF s # <<>> /\ s[Len(s)] \in C THEN rstripSet(SubSeq(s, 1, Len(s) - 1), C) ELSE s
\* str.strip(chars)
stripSet(s, C) == rstripSet(lstripSet(s, C), C)
\* str.strip() / str.lstrip()
strip(s) == stripSet(s, {" ", "\t", "\n"})
lstrip(s) == lstripSet(s, {" ", "\t", "\n"})

startswith(s, p) == Len(p) <= Len(s) /\ SubSeq(s, 1, Len(p)) = p

\* str.isdigit()
isdigit(s) == s # <<>> /\ \A k \in DOMAIN s : IsDigit(s[k])

RECURSIVE SubInvisible(_)
\* INVISIBLE.sub(' ', text): every maximal run of invisible characters
\* becomes one space
SubInvisible(s) ==
    IF s = <<>> THEN <<>>
    ELSE IF IsInvisible(s[1])
         THEN <<" ">> \o SubInvisible(lstripSet(s, {"u200b", "u200c", "u200d", "ufeff", "u00a0"}))
         ELSE <<s[1]>> \o SubInvisible(Tail(s))

\* re.sub(r'[^\w\s]', ' ', text)
SubNonWord(s) == [k \in DOMAIN s |-> IF IsWordChar(s[k]) \/ IsSpace(s[k]) THEN s[k] ELSE " "]

\* _normalize(text)
_normalize(text) ==
    IF text = <<>> THEN <<>>
    ELSE strip(join(<<" ">>, split(SubInvisible(text))))

----------------------------------------------------------------------------
(* Month tables *)

MONTH_NAMES == <<
    <<"J","a","n","u","a","r","y">>,
    <<"F","e","b","r","u","a","r","y">>,
    <<"M","a","r","c","h">>,
    <<"A","p","r","i","l">>,
    <<"M","a","y">>,
    <<"J","u","n","e">>,
    <<"J","u","l","y">>,
    <<"A","u","g","u","s","t">>,
    <<"S","e","p","t","e","m","b","e","r">>,
    <<"O","c","t","o","b","e","r">>,
    <<"N","o","v","e","m","b","e","r">>,
    <<"D","e","c","e","m","b","e","r">> >>

MONTH_ABBREV == <<
    <<"J","a","n">>,
    <<"F","e","b">>,
    <<"M","a","r">>,
    <<"A","p","r">>,
    <<"M","a","y">>,
    <<"J","u","n">>,
    <<"J","u","l">>,
    <<"A","u","g">>,
    <<"S","e","p">>,
    <<"S","e","p","t">>,
    <<"O","c","t">>,
    <<"N","o","v">>,
    <<"D","e","c">> >>

\* the alternatives of MONTH_PATTERN, in the order the regex tries them
MONTH_PATTERN == MONTH_NAMES \o MONTH_ABBREV

MONTH_SET == {lower(m) : m \in Range(MONTH_NAMES)} \cup {lower(m) : m \in Range(MONTH_ABBREV)}

MONTH_PREFIXES == [k \in DOMAIN MONTH_PATTERN |-> lower(MONTH_PATTERN[k])]

----------------------------------------------------------------------------
(* Regular expressions, as a backtracking matcher: a sub-pattern maps a     *)
(* position (characters consumed so far) to the positions it can end at,   *)
(* in the order the engine tries them.  The first complete path is the     *)
(* match.                                                                  *)

FlatMap(ps, G(_)) ==
    LET f[k \in 0..Len(ps)] == IF k = 0 THEN <<>> ELSE f[k - 1] \o G(ps[k])
    IN  f[Len(ps)]

\* length of the run of characters satisfying P that starts after position p
RunLen(s, p, P(_)) ==
    LET ends == {q \in p..Len(s) : \A k \in (p + 1)..q : P(s[k])}
    IN  (CHOOSE q \in ends : \A r \in ends : r <= q) - p

\* X{lo,hi}, greedy: longest first
Greedy(s, p, P(_), lo, hi) ==
    LET n == IF RunLen(s, p, P) < hi THEN RunLen(s, p, P) ELSE hi
    IN  IF n < lo THEN <<>> ELSE [k \in 1..(n - lo + 1) |-> p + n - (k - 1)]

\* X*?, lazy: shortest first
Lazy(s, p, P(_)) == [k \in 1..(RunLen(s, p, P) + 1) |-> p + (k - 1)]

IsStar(c) == c = "*"
IsDot(c) == c # "\n"

reStars(s, p) == Greedy(s, p, IsStar, 0, Len(s))          \* \**
reSpaces0(s, p) == Greedy(s, p, IsSpace, 0, Len(s))       \* \s*
reSpaces1(s, p) == Greedy(s, p, IsSpace, 1, Len(s))       \* \s+
reDay(s, p) == Greedy(s, p, IsDigit, 1, 2)                \* \d{1,2}
reYear4(s, p) == Greedy(s, p, IsDigit, 4, 4)              \* \d{4}
rePunctOpt(s, p) ==                                       \* [,.]?
    (IF p < Len(s) /\ s[p + 1] \in {",", "."} THEN <<p + 1>> ELSE <<>>) \o <<p>>

\* (January|...|Dec) under re.IGNORECASE
reMonth(s, p) ==
    FlatMap(MONTH_PATTERN,
            LAMBDA m : IF p + Len(m) <= Len(s)
                          /\ lower(SubSeq(s, p + 1, p + Len(m))) = lower(m)
                       THEN <<p + Len(m)>> ELSE <<>>)

\* (?:\s*[,.]?\s*\d{4})?
reYearOpt(s, p) ==
    FlatMap(reSpaces0(s, p), LAMBDA a :
      FlatMap(rePunctOpt(s, a), LAMBDA b :
        FlatMap(reSpaces0(s, b), LAMBDA c : reYear4(s, c))))
    \o <<p>>

\* (MONTH)\s+\d{1,2}(?:\s*[,.]?\s*\d{4})?
reMonthDay(s, p) ==
    FlatMap(reMonth(s, p), LAMBDA a :
      FlatMap(reSpaces1(s, a), LAMBDA b :
        FlatMap(reDay(s, b), LAMBDA c : reYearOpt(s, c))))

\* DATE_PATTERN.match(text): the end positions of the complete paths
DATE_PATTERN(text) ==
    LET ends == FlatMap(reStars(text, 0), LAMBDA a :
                  FlatMap(reSpaces0(text, a), LAMBDA b :
                    FlatMap(reMonthDay(text, b), LAMBDA c :
                      FlatMap(reSpaces0(text, c), LAMBDA d : reStars(text, d)))))
    IN  SelectSeq(ends, LAMBDA e : e = Len(text))

\* DATE_PATTERN_START.match(text): optional m.group(0)
DATE_PATTERN_START(text) ==
    LET ends == FlatMap(reSpaces0(text, 0), LAMBDA a :
                  FlatMap(reStars(text, a), LAMBDA b :
                    FlatMap(reSpaces0(text, b), LAMBDA c : reMonthDay(text, c))))
    IN  IF ends = <<>> THEN None ELSE Some(SubSeq(text, 1, ends[1]))

\* re.match(r'\**(.*?)\**', text): optional m.group(1)
reBold(text) ==
    LET paths == FlatMap(reStars(text, 0), LAMBDA a :
                   FlatMap(Lazy(text, a, IsDot), LAMBDA b :
                     FlatMap(reStars(text, b), LAMBDA e : << <<a, b, e>> >>)))
    IN  IF paths = <<>> THEN None ELSE Some(SubSeq(text, paths[1][1] + 1, paths[1][2]))

\* re.sub(r'^\s*\*+\s*|\s*\*+$', '', g)
SubStarMarkup(g) ==
    LET a == lstrip(g)
        h == IF a # <<>> /\ a[1] = "*" THEN lstrip(lstripSet(a, {"*"})) ELSE g
    IN  IF h # <<>> /\ h[Len(h)] = "*"
        THEN rstripSet(rstripSet(h, {"*"}), {" ", "\t", "\n"})
        ELSE h

----------------------------------------------------------------------------
(* Line classification (app.py) *)

\* _is_date_line(text)
_is_date_line(text) ==
    LET parts == split(join(<<" ">>, split(SubNonWord(text))))
    IN  IF Len(parts) < 2 THEN FALSE
        ELSE LET first == lower(parts[1])
                 second == stripSet(parts[2], {".", ","})
             IN  first \in MONTH_SET /\ isdigit(second)
                 /\ 1 <= Len(second) /\ Len(second) <= 2

\* "{p[0]} {p[1].strip('.,')}" of the punctuation-free tokens of text
TokenPairLabel(text, otherwise) ==
    LET p == split(join(<<" ">>, split(SubNonWord(text))))
    IN  IF Len(p) >= 2 THEN p[1] \o <<" ">> \o stripSet(p[2], {".", ","})
        ELSE otherwise

\* _is_date_line_simple(text): <<is_date, optional date_label>>
_is_date_line_simple(text) ==
    LET t == lower(_normalize(text))
        hit(month) ==
            LET prefix == month \o <<" ">>
                rest == lstrip(SubSeq(t, Len(prefix) + 1, Len(t)))
            IN  startswith(t, prefix) /\ rest # <<>> /\ IsDigit(rest[1])
    IN  IF t = <<>> THEN <<FALSE, None>>
        ELSE IF \E k \in DOMAIN MONTH_PREFIXES : hit(MONTH_PREFIXES[k])
             THEN <<TRUE, Some(TokenPairLabel(text, _normalize(text)))>>
             ELSE <<FALSE, None>>

\* the bold flag of a paragraph's first run: "none" is a paragraph without
\* runs, "inherit" a run whose bold attribute is unset (None)
BoldStates == {"true", "false", "inherit", "none"}

\* first_run_bold = para.runs and para.runs[0].bold is not False
first_run_bold(para) == para.bold \in {"true", "inherit"}

\* the is_date expression of pass 1
is_date(para, text) ==
    \/ first_run_bold(para) /\ reBold(text) # None
    \/ DATE_PATTERN(text) # <<>>
    \/ DATE_PATTERN_START(text) # None
    \/ _is_date_line(text)

\* the label computed for a line with is_date
DateLabel(para, text) ==
    IF first_run_bold(para) /\ reBold(text) # None
    THEN _normalize(reBold(text)[1])
    ELSE IF _is_date_line(text)
    THEN TokenPairLabel(text, text)
    ELSE LET m == DATE_PATTERN_START(text)
         IN  IF m # None THEN strip(SubStarMarkup(m[1])) ELSE text

\* What pass 1 does with one paragraph: "blank" (skipped), "date" (kept with
\* a label), "dropped" (a date whose label is empty: nothing is kept) or
\* "name"
Classify(para) ==
    LET text == _normalize(para.text)
        simple == _is_date_line_simple(text)
    IN  IF text = <<>> THEN [kind |-> "blank", text |-> text, label |-> None]
        ELSE IF simple[1] /\ simple[2] # None /\ simple[2][1] # <<>>
        THEN [kind |-> "date", text |-> text, label |-> simple[2]]
        ELSE IF is_date(para, text)
        THEN IF DateLabel(para, text) # <<>>
             THEN [kind |-> "date", text |-> text, label |-> Some(DateLabel(para, text))]
             ELSE [kind |-> "dropped", text |-> text, label |-> Some(<<>>)]
        ELSE [kind |-> "name", text |-> text, label |-> None]

----------------------------------------------------------------------------
(* The ordered mapping: a Python dict keeps insertion order, and assigning  *)
(* to a key it already holds keeps the key's position.                     *)

DictKeys(d) == [k \in DOMAIN d |-> d[k].label]
DictHas(d, key) == \E k \in DOMAIN d : d[k].label = key
DictIndex(d, key) == CHOOSE k \in DOMAIN d : d[k].label = key
DictGet(d, key) == d[DictIndex(d, key)].names

\* d[key] = names, with the key moved to the end when it is already present
DictSetMoveToEnd(d, key, names) ==
    Append(SelectSeq(d, LAMBDA e : e.label # key), [label |-> key, names |-> names])
\* d.setdefault(key, names): a key already present keeps its group
DictSetDefault(d, key, names) ==
    IF DictHas(d, key) THEN d ELSE Append(d, [label |-> key, names |-> names])
\* d[key] = names
DictSet(d, key, names) ==
    IF DictHas(d, key)
    THEN [d EXCEPT ![DictIndex(d, key)].names = names]
    ELSE Append(d, [label |-> key, names |-> names])

\* d[key] = names in place of d[key].extend(names)
DictExtendAssign(d, key, names) == [d EXCEPT ![DictIndex(d, key)].names = names]
\* d[key].append(name) / d[key].extend(names)
DictExtend(d, key, names) == [d EXCEPT ![DictIndex(d, key)].names = @ \o names]

\* A name held in a group or in the staging buffer is the line's text; src,
\* the index of the paragraph it came from, is carried along as history so
\* that two lines with the same text can be told apart.
Name(text, src) == [text |-> text, src |-> src]
Texts(names) == [k \in DOMAIN names |-> names[k].text]

----------------------------------------------------------------------------
(* The documents *)

Paragraphs == {
    [text |-> <<"D","a","n","a">>, bold |-> "false"],
    [text |-> <<"E","v","e">>, bold |-> "false"],
    [text |-> <<"A","p","r","i","l"," ","1">>, bold |-> "false"],
    [text |-> <<"M","a","r","u00a0","2">>, bold |-> "inherit"],
    [text |-> <<"*","*","S","e","p"," ","8","*","*">>, bold |-> "false"],
    [text |-> <<"*","*","S","e","p"," ","8","*","*">>, bold |-> "true"],
    [text |-> <<"G","i","a">>, bold |-> "inherit"],
    [text |-> <<" ","u200b">>, bold |-> "false"],
    [text |-> <<"*","M","a","r"," ","2","1","2","3">>, bold |-> "none"] }

Documents == UNION {[1..n -> Paragraphs] : n \in 0..MaxLines}

----------------------------------------------------------------------------
(* app.py: parse_birthday_document, generate_html, upload_file *)

DebugWidth == 60

DebugLine(tag, text) ==
    [tag |-> tag, text |-> SubSeq(text, 1, IF Len(text) < DebugWidth THEN Len(text) ELSE DebugWidth)]

Init ==
    /\ doc \in Documents
    /\ pc = "pass1"
    /\ i = 1
    /\ items = <<>>
    /\ debug_lines = <<>>
    /\ birthdays = <<>>
    /\ current_date = None
    /\ leading = <<>>
    /\ html = None
    /\ title = None

\* Classify of every paragraph of the pool, evaluated once
Classified == [para \in Paragraphs |-> Classify(para)]

\* items.append((text, label)) guarded by "if label:"
KeepsDateAlways(c) == c.kind \in {"date", "dropped"}
KeepsDate(c) == c.kind = "date"

\* one iteration of the pass 1 loop
Pass1Step ==
    /\ pc = "pass1"
    /\ i <= Len(doc)
    /\ \E c \in {Classified[doc[i]]} :
           IF KeepsDate(c) \/ c.kind = "name"
           THEN /\ items' = Append(items, [text |-> c.text,
                                           date_label |-> c.label,
                                           src |-> i])
                /\ debug_lines' = Append(debug_lines,
                                         DebugLine(IF c.kind = "name" THEN "NAME" ELSE "DATE", c.text))
           ELSE UNCHANGED <<items, debug_lines>>
    /\ i' = i + 1
    /\ UNCHANGED <<doc, pc, birthdays, current_date, leading, html, title>>

\* the end of pass 1 and the initialisation of pass 2
Pass1Done ==
    /\ pc = "pass1"
    /\ i > Len(doc)
    /\ birthdays' = <<>>
    /\ current_date' = None
    /\ leading' = <<>>
    /\ i' = 1
    /\ pc' = "pass2"
    /\ UNCHANGED <<doc, items, debug_lines, html, title>>

\* list(leading), the group a date line opens
NewGroupEmpty(l) == <<>>
NewGroup(l) == l

\* leading.clear()
ClearKeeps(l) == l
Clear(l) == <<>>

\* one iteration of the pass 2 loop
Pass2Step ==
    /\ pc = "pass2"
    /\ i <= Len(items)
    /\ LET text == items[i].text
           date_label == items[i].date_label
       IN  IF date_label # None
           THEN /\ birthdays' = DictSet(birthdays, date_label[1], NewGroup(leading))
                /\ leading' = Clear(leading)
                /\ current_date' = date_label
           ELSE IF current_date # None
                THEN /\ birthdays' = DictExtend(birthdays, current_date[1],
                                                <<Name(text, items[i].src)>>)
                     /\ UNCHANGED <<leading, current_date>>
                ELSE /\ leading' = Append(leading, Name(text, items[i].src))
                     /\ UNCHANGED <<birthdays, current_date>>
    /\ i' = i + 1
    /\ UNCHANGED <<doc, pc, items, debug_lines, html, title>>

\* after the loop: "if leading and current_date is not None: extend", return
Pass2Flush ==
    /\ pc = "pass2"
    /\ i > Len(items)
    /\ birthdays' = IF leading # <<>> /\ current_date # None
                    THEN DictExtend(birthdays, current_date[1], leading)
                    ELSE birthdays
    /\ pc' = "html"
    /\ UNCHANGED <<doc, i, items, debug_lines, current_date, leading, html, title>>

----------------------------------------------------------------------------
(* generate_html *)

RowSize == 4

BR == <<" ", "<", "b", "r", "/", ">", " ">>

\* the card of one date
Card(d, date) == [tag |-> "card", h3 |-> date, p |-> join(BR, Texts(DictGet(d, date)))]

RECURSIVE HtmlRows(_, _, _, _, _)
\* the parts appended by "for i in range(0, len(dates), step)" from index
\* start on (0-based), each row holding dates[i:i+width]
HtmlRows(d, dates, start, step, width) ==
    IF start >= Len(dates) THEN <<>>
    ELSE LET last == IF start + width < Len(dates) THEN start + width ELSE Len(dates)
             row_dates == SubSeq(dates, start + 1, last)
         IN  <<[tag |-> "row_open"]>>
             \o [k \in DOMAIN row_dates |-> Card(d, row_dates[k])]
             \o <<[tag |-> "row_close"]>>
             \o HtmlRows(d, dates, start + step, step, width)

NoData == [tag |-> "no_data"]

\* generate_html with a row step of RowSize - 1 and a slice of RowSize
generate_html_step(d) ==
    LET dates == SelectSeq(DictKeys(d), LAMBDA k : k # <<>>)
    IN  IF dates = <<>> THEN <<NoData>> ELSE HtmlRows(d, dates, 0, RowSize - 1, RowSize)
\* generate_html(birthdays) of app.py: the parts joined by newlines
generate_html(d) ==
    LET dates == SelectSeq(DictKeys(d), LAMBDA k : k # <<>>)
    IN  IF dates = <<>> THEN <<NoData>> ELSE HtmlRows(d, dates, 0, RowSize, RowSize)

GenerateHtml ==
    /\ pc = "html"
    /\ html' = Some(generate_html(birthdays))
    /\ pc' = "title"
    /\ UNCHANGED <<doc, i, items, debug_lines, birthdays, current_date, leading, title>>

\* f"{dates[0]} - {dates[-1]} Birthdays" if dates else "Birthdays"
TitleOf(dates) ==
    IF dates # <<>>
    THEN dates[1] \o <<" ", "-", " ">> \o dates[Len(dates)]
         \o <<" ", "B", "i", "r", "t", "h", "d", "a", "y", "s">>
    ELSE <<"B", "i", "r", "t", "h", "d", "a", "y", "s">>

\* upload_file, the title of the response
MakeTitle ==
    /\ pc = "title"
    /\ title' = Some(TitleOf(SelectSeq(DictKeys(birthdays), LAMBDA k : k # <<>>)))
    /\ pc' = "done"
    /\ UNCHANGED <<doc, i, items, debug_lines, birthdays, current_date, leading, html>>

Next == Pass1Step \/ Pass1Done \/ Pass2Step \/ Pass2Flush \/ GenerateHtml \/ MakeTitle

Spec == Init /\ [][Next]_vars

----------------------------------------------------------------------------
(* birthday_flask_app.py: parse_birthday_document, generate_html,          *)
(* upload_file                                                             *)

\* str.strip() on the raw paragraph text: u00a0 is whitespace to Python
strip_raw(s) == stripSet(s, {" ", "\t", "\n", "u00a0"})

FlaskInit ==
    /\ doc \in Documents
    /\ pc = "loop"
    /\ i = 1
    /\ items = <<>>
    /\ debug_lines = <<>>
    /\ birthdays = <<>>
    /\ current_date = None
    /\ leading = <<>>
    /\ html = None
    /\ title = None

\* what the loop body does with one paragraph: <<birthdays, current_date>>
FlaskLine(para, src, d, cur) ==
    LET text == strip_raw(para.text)
    IN  IF text = <<>> THEN <<d, cur>>
        ELSE IF para.bold = "true"
        THEN LET date_match == reBold(text)
             IN  IF date_match # None
                 THEN <<DictSet(d, strip_raw(date_match[1]), <<>>),
                        Some(strip_raw(date_match[1]))>>
                 ELSE <<d, cur>>
        ELSE IF cur # None /\ cur[1] # <<>>
        THEN <<DictExtend(d, cur[1], <<Name(text, src)>>), cur>>
        ELSE <<d, cur>>

\* one iteration of "for para in doc.paragraphs"
FlaskStep ==
    /\ pc = "loop"
    /\ i <= Len(doc)
    /\ birthdays' = FlaskLine(doc[i], i, birthdays, current_date)[1]
    /\ current_date' = FlaskLine(doc[i], i, birthdays, current_date)[2]
    /\ i' = i + 1
    /\ UNCHANGED <<doc, pc, items, debug_lines, leading, html, title>>

FlaskDone ==
    /\ pc = "loop"
    /\ i > Len(doc)
    /\ pc' = "html"
    /\ UNCHANGED <<doc, i, items, debug_lines, birthdays, current_date, leading, html, title>>

\* generate_html(birthdays) of birthday_flask_app.py
generate_html_flask(d) == HtmlRows(d, DictKeys(d), 0, RowSize, RowSize)

FlaskGenerateHtml ==
    /\ pc = "html"
    /\ html' = Some(generate_html_flask(birthdays))
    /\ pc' = "title"
    /\ UNCHANGED <<doc, i, items, debug_lines, birthdays, current_date, leading, title>>

FlaskMakeTitle ==
    /\ pc = "title"
    /\ title' = Some(TitleOf(DictKeys(birthdays)))
    /\ pc' = "done"
    /\ UNCHANGED <<doc, i, items, debug_lines, birthdays, current_date, leading, html>>

FlaskNext == FlaskStep \/ FlaskDone \/ FlaskGenerateHtml \/ FlaskMakeTitle

SpecFlask == FlaskInit /\ [][FlaskNext]_vars

----------------------------------------------------------------------------
(* generate_html and the title on mappings given directly *)

Labels == {
    <<"J","a","n"," ","1">>,
    <<"F","e","b"," ","2">>,
    <<"M","a","r"," ","3">>,
    <<"A","p","r"," ","4">>,
    <<"M","a","y"," ","5">>,
    <<"J","u","n"," ","6">>,
    <<>> }

\* the group given to a label: none, one or two names
NamesFor(label) ==
    IF label = <<>> THEN <<Name(<<"Z">>, 0)>>
    ELSE IF label[1] = "J" THEN <<>>
    ELSE IF label[1] = "M" THEN <<Name(<<"A", "l">>, 0), Name(<<"B", "o">>, 0)>>
    ELSE <<Name(<<"C", "y">>, 0)>>

Mappings ==
    LET keys == UNION {{f \in [1..n -> Labels] : \A a, b \in 1..n : a # b => f[a] # f[b]}
                       : n \in 0..MaxLabels}
    IN  {[k \in DOMAIN f |-> [label |-> f[k], names |-> NamesFor(f[k])]] : f \in keys}

HtmlInit ==
    /\ doc = <<>>
    /\ pc = "html"
    /\ i = 1
    /\ items = <<>>
    /\ debug_lines = <<>>
    /\ birthdays \in Mappings
    /\ current_date = None
    /\ leading = <<>>
    /\ html = None
    /\ title = None

HtmlNext == GenerateHtml \/ MakeTitle

SpecHtml == HtmlInit /\ [][HtmlNext]_vars

----------------------------------------------------------------------------
(* Vocabulary of the properties *)

Kind(k) == Classified[doc[k]].kind
LabelAt(k) == Classified[doc[k]].label[1]
DateLines == {k \in DOMAIN doc : Kind(k) = "date"}
NameLines == {k \in DOMAIN doc : Kind(k) = "name"}
DroppedLines == {k \in DOMAIN doc : Kind(k) = "dropped"}

Max(S) == CHOOSE x \in S : \A y \in S : y <= x
Min(S) == CHOOSE x \in S : \A y \in S : x <= y

\* parse_birthday_document has returned: birthdays is the final mapping
Parsed == pc \in {"html", "title", "done"}

\* the places <<group, position>> of the mapping that hold line k
Holders(k) ==
    {gn \in UNION {{<<g, n>> : n \in DOMAIN birthdays[g].names} : g \in DOMAIN birthdays}
        : birthdays[gn[1]].names[gn[2]].src = k}

\* the date lines before line k, and the nearest of them
DatesBefore(k) == {d \in DateLines : d < k}
\* the name lines attributed to date line d: those whose nearest preceding
\* date line is d
NamesUnder(d) == {k \in NameLines : DatesBefore(k) # {} /\ Max(DatesBefore(k)) = d}
\* the name lines before the first date line
LeadingNames == {k \in NameLines : DatesBefore(k) = {}}

\* the date line's label occurs again at a later date line
Recurs(d) == \E e \in DateLines : e > d /\ LabelAt(e) = LabelAt(d)

RECURSIVE SortedSeq(_)
\* the elements of a set of line numbers in document order
SortedSeq(S) == IF S = {} THEN <<>> ELSE <<Min(S)>> \o SortedSeq(S \ {Min(S)})

Srcs(names) == [n \in DOMAIN names |-> names[n].src]

\* the labels of the date lines in order of first occurrence
FirstSeenLabels ==
    LET firsts == {d \in DateLines : \A e \in DateLines : e < d => LabelAt(e) # LabelAt(d)}
        order == SortedSeq(firsts)
    IN  [k \in DOMAIN order |-> LabelAt(order[k])]

\* the mapping without the history field
Mapping(d) == [g \in DOMAIN d |-> [label |-> d[g].label, names |-> Texts(d[g].names)]]

Birthdays == <<"B", "i", "r", "t", "h", "d", "a", "y", "s">>

----------------------------------------------------------------------------
(* C1: every name line that comes after a date line is, in the final      *)
(* mapping, in exactly one group, the group of the nearest preceding date  *)
(* line, and the names of a group are in document order.                   *)
(* Refuted: a label that recurs replaces its group.                        *)
C1_NameInNearestGroup ==
    Parsed =>
        /\ \A k \in NameLines :
              DatesBefore(k) # {} =>
                  /\ Cardinality(Holders(k)) = 1
                  /\ \A gn \in Holders(k) :
                        birthdays[gn[1]].label = LabelAt(Max(DatesBefore(k)))
        /\ \A g \in DOMAIN birthdays :
              \A m, n \in DOMAIN birthdays[g].names :
                  m < n => birthdays[g].names[m].src < birthdays[g].names[n].src

----------------------------------------------------------------------------
(* C2, as stated: when the document has a date line, every name line before *)
(* the first date line is in the final mapping, in the last group opened.  *)
C2_LeadingInLastGroup ==
    (Parsed /\ DateLines # {}) =>
        \A k \in LeadingNames :
            \E gn \in Holders(k) : birthdays[gn[1]].label = LabelAt(Max(DateLines))

(* C2, amended: every name line before the first date line is attached to  *)
(* the first group opened and to no other: it is held at most once, only   *)
(* under the first date line's label, at the front of that group in        *)
(* document order; and it is in the final mapping exactly when that label  *)
(* does not recur at a later date line.                                    *)
C2_LeadingInFirstGroup ==
    (Parsed /\ DateLines # {}) =>
        \A k \in LeadingNames :
            /\ Cardinality(Holders(k)) <= 1
            /\ \A gn \in Holders(k) :
                  /\ birthdays[gn[1]].label = LabelAt(Min(DateLines))
                  /\ gn[2] = Cardinality({j \in LeadingNames : j <= k})
            /\ (Holders(k) # {}) <=> ~Recurs(Min(DateLines))

\* a leading name is held by the first group while a later group, under
\* another label, is the last one opened
C2_Witness ==
    /\ Parsed
    /\ DateLines # {}
    /\ LabelAt(Max(DateLines)) # LabelAt(Min(DateLines))
    /\ \E k \in LeadingNames : Holders(k) # {}

----------------------------------------------------------------------------
(* C3, as stated: the non-bold lines "Dana", "April 1", "Eve" give exactly *)
(* the mapping {"April 1": ["Eve"]}; "Dana" is in no group.                *)
ScenarioC == <<
    [text |-> <<"D","a","n","a">>, bold |-> "false"],
    [text |-> <<"A","p","r","i","l"," ","1">>, bold |-> "false"],
    [text |-> <<"E","v","e">>, bold |-> "false"] >>

C3_ScenarioC_DanaDropped ==
    (Parsed /\ doc = ScenarioC) =>
        /\ Mapping(birthdays) = <<[label |-> <<"A","p","r","i","l"," ","1">>, names |-> <<<<"E","v","e">>>>]>>
        /\ Holders(1) = {}

(* C3, amended: the non-bold lines "Dana", "April 1", "Eve" give exactly   *)
(* the mapping {"April 1": ["Dana", "Eve"]}: the orphan name is moved into *)
(* the group of the first date heading.                                    *)
C3_ScenarioC_DanaKept ==
    (Parsed /\ doc = ScenarioC) =>
        Mapping(birthdays) =
            <<[label |-> <<"A","p","r","i","l"," ","1">>, names |-> <<<<"D","a","n","a">>, <<"E","v","e">>>>]>>

C3_Witness == pc = "done" /\ doc = ScenarioC

----------------------------------------------------------------------------
(* C4: a date line whose label is already a key of the mapping replaces    *)
(* that key's group by an empty group and leaves the keys, their order and *)
(* the other groups as they are; in the final mapping the names that had   *)
(* been collected under an earlier occurrence of a label are absent, the   *)
(* group of a label holds exactly the name lines under its last            *)
(* occurrence, and the keys are in first-seen order.                       *)
C4_RecurringLabelStep ==
    (/\ pc = "pass2"
     /\ i <= Len(items)
     /\ items[i].date_label # None
     /\ DictHas(birthdays, items[i].date_label[1]))
    => /\ DictKeys(birthdays') = DictKeys(birthdays)
       /\ \A g \in DOMAIN birthdays :
             birthdays'[g].names = IF birthdays[g].label = items[i].date_label[1]
                                   THEN <<>>
                                   ELSE birthdays[g].names

C4_RecurringLabelFinal ==
    Parsed =>
        /\ DictKeys(birthdays) = FirstSeenLabels
        /\ \A d \in DateLines :
              IF Recurs(d)
              THEN \A k \in NamesUnder(d) \cup (IF d = Min(DateLines) THEN LeadingNames ELSE {}) :
                       Holders(k) = {}
              ELSE (\E e \in DateLines : e < d /\ LabelAt(e) = LabelAt(d))
                   => Srcs(DictGet(birthdays, LabelAt(d))) = SortedSeq(NamesUnder(d))

\* C4: the step on a recurring label and the final mapping, together
C4_RecurringLabelStartsFresh ==
    [][C4_RecurringLabelStep]_vars /\ []C4_RecurringLabelFinal

\* a label recurs, with a name line under each of its occurrences
C4_Witness ==
    /\ Parsed
    /\ \E d, e \in DateLines :
          /\ d < e
          /\ LabelAt(d) = LabelAt(e)
          /\ ~Recurs(e)
          /\ NamesUnder(d) # {}
          /\ NamesUnder(e) # {}
          /\ Srcs(DictGet(birthdays, LabelAt(e))) = SortedSeq(NamesUnder(e))

----------------------------------------------------------------------------
(* C5: every non-blank line that pass 1 has gone through, whose leading    *)
(* run is bold or inherits bold and whose text is not empty once the       *)
(* asterisks around it are stripped, was kept as a date whose label is     *)
(* that stripped text, without any asterisk.                               *)
(* Refuted: the lazy group of r'\**(.*?)\**' is always empty.              *)
C5_BoldLineIsDate ==
    \A k \in DOMAIN doc :
        (/\ pc # "pass1" \/ k < i
         /\ doc[k].bold \in {"true", "inherit"}
         /\ _normalize(stripSet(_normalize(doc[k].text), {"*"})) # <<>>)
        => \E n \in DOMAIN items :
              /\ items[n].src = k
              /\ items[n].date_label =
                     Some(_normalize(stripSet(_normalize(doc[k].text), {"*"})))
              /\ "*" \notin Range(items[n].date_label[1])

----------------------------------------------------------------------------
(* C6: no key of the mapping is the empty string, at any point.            *)
(* Refuted by birthday_flask_app.py, which stores the empty group(1) of a  *)
(* bold line as a key.                                                     *)
C6_NoEmptyLabel == \A g \in DOMAIN birthdays : birthdays[g].label # <<>>

\* the cards of an HTML result, and where its rows open and close
HtmlCards(h) == SelectSeq(h, LAMBDA part : part.tag = "card")
HtmlOpens(h) == SortedSeq({k \in DOMAIN h : h[k].tag = "row_open"})
HtmlCloses(h) == SortedSeq({k \in DOMAIN h : h[k].tag = "row_close"})

----------------------------------------------------------------------------
(* C7: generate_html gives the "no data" message exactly when the mapping  *)
(* has no non-empty label; otherwise the cards are the non-empty labels,   *)
(* once each and in mapping order, each with its names joined by the line  *)
(* break; the parts are rows of cards, each row of at most 4 cards and     *)
(* every row but the last of exactly 4.                                    *)
C7_HtmlCards ==
    html # None =>
        LET h == html[1]
            dates == SelectSeq(DictKeys(birthdays), LAMBDA key : key # <<>>)
            cards == HtmlCards(h)
            opens == HtmlOpens(h)
            closes == HtmlCloses(h)
            rows == Len(opens)
        IN  /\ (h = <<NoData>>) <=> (dates = <<>>)
            /\ (NoData \in Range(h)) => h = <<NoData>>
            /\ dates # <<>> =>
                  /\ [k \in DOMAIN cards |-> cards[k].h3] = dates
                  /\ \A k \in DOMAIN cards :
                        cards[k].p = join(BR, Texts(DictGet(birthdays, dates[k])))
                  /\ Len(closes) = rows
                  /\ rows * 4 >= Len(dates) /\ (rows - 1) * 4 < Len(dates)
                  /\ opens[1] = 1 /\ closes[rows] = Len(h)
                  /\ \A r \in 1..rows :
                        /\ opens[r] < closes[r]
                        /\ r < rows => opens[r + 1] = closes[r] + 1
                        /\ closes[r] - opens[r] - 1 <= 4
                        /\ r < rows => closes[r] - opens[r] - 1 = 4
                        /\ closes[r] - opens[r] - 1 >= 1

\* more than one row, the last one not full, and an empty label left out
C7_Witness ==
    /\ html # None
    /\ Len(HtmlOpens(html[1])) = 2
    /\ Len(HtmlCards(html[1])) = 5
    /\ DictHas(birthdays, <<>>)

----------------------------------------------------------------------------
(* C8: the title is "{first} - {last} Birthdays", first and last being the *)
(* first and the last label in first-seen order, and "Birthdays" when no   *)
(* label was kept.                                                         *)
C8_Title ==
    pc = "done" =>
        /\ DictKeys(birthdays) = FirstSeenLabels
        /\ title = Some(IF FirstSeenLabels = <<>> THEN Birthdays
                        ELSE FirstSeenLabels[1] \o <<" ", "-", " ">>
                             \o FirstSeenLabels[Len(FirstSeenLabels)]
                             \o <<" ">> \o Birthdays)

\* the first label recurs after the last label was first seen
C8_Witness ==
    /\ pc = "done"
    /\ Len(FirstSeenLabels) = 2
    /\ LabelAt(Max(DateLines)) = FirstSeenLabels[1]

----------------------------------------------------------------------------
(* C9: a line classified as a date whose label is empty changes nothing:   *)
(* it is added neither to the items nor to the log, and no item comes from *)
(* it; a name line is appended to the group of the nearest preceding date  *)
(* line that was kept, or to the staging buffer when there is none.        *)
C9_DroppedStep ==
    (pc = "pass1" /\ i <= Len(doc) /\ Kind(i) = "dropped")
    => UNCHANGED <<items, debug_lines, birthdays, current_date, leading>>

C9_NameStep ==
    (pc = "pass2" /\ i <= Len(items) /\ items[i].date_label = None)
    => LET k == items[i].src
           name == Name(items[i].text, k)
       IN  IF DatesBefore(k) = {}
           THEN leading' = Append(leading, name) /\ birthdays' = birthdays
           ELSE /\ leading' = leading
                /\ DictKeys(birthdays') = DictKeys(birthdays)
                /\ \A g \in DOMAIN birthdays :
                      birthdays'[g].names =
                          IF birthdays[g].label = LabelAt(Max(DatesBefore(k)))
                          THEN Append(birthdays[g].names, name)
                          ELSE birthdays[g].names

\* C9: an empty-label date line leaves no trace in pass 1 or in pass 2
C9_EmptyLabelChangesNothing ==
    /\ [][C9_DroppedStep]_vars
    /\ [][C9_NameStep]_vars
    /\ [](\A n \in DOMAIN items : items[n].src \notin DroppedLines)

\* a name line follows an empty-label date line that follows a kept date line,
\* and is held by the kept date line's group
C9_Witness ==
    \E d \in DateLines, x \in DroppedLines, k \in NameLines :
        /\ d < x /\ x < k
        /\ Max(DatesBefore(k)) = d
        /\ \E gn \in Holders(k) : birthdays[gn[1]].label = LabelAt(d)

----------------------------------------------------------------------------
(* C10: in pass 2 the staging buffer is empty whenever current_date is     *)
(* set; at the end of the input it is non-empty only if there is no date   *)
(* item, and the flush after the loop leaves the mapping as it is.         *)
C10_FlushStep ==
    (pc = "pass2" /\ i > Len(items)) => birthdays' = birthdays

\* C10: leading is empty once current_date is set, and the flush adds nothing
C10_LeadingEmptyOnceDated ==
    /\ [](current_date # None => leading = <<>>)
    /\ []((Parsed /\ leading # <<>>) => (DateLines = {} /\ birthdays = <<>>))
    /\ [][C10_FlushStep]_vars

\* the flush is reached with a label set, after the buffer had held a name
C10_Witness ==
    /\ pc = "pass2"
    /\ i > Len(items)
    /\ current_date # None
    /\ LeadingNames # {}

====
